---- MODULE Spec2Model ----
(***************************************************************************)
(* Model of the Algo Arena judge (src/server.js): the problem registry and *)
(* its reference oracles, the per-language harness generators, the Docker  *)
(* runner and the POST /run handler.                                       *)
(*                                                                         *)
(* The handler is synchronous (execSync blocks the event loop), so one     *)
(* request is one atomic step.  Text written to stdout is modelled as a    *)
(* sequence of JSON tokens; JavaScript values are tagged records.          *)
(***************************************************************************)
EXTENDS Integers, Sequences, FiniteSets, TLC

(***************************************************************************)
(* Bounds of the model.                                                    *)
(***************************************************************************)
\* number of requests the server handles in one behaviour
MaxRequests == 2

(***************************************************************************)
(* JavaScript values.  t is the type tag; n the number; s the characters   *)
(* of a string; a the elements of an array or the member values of an      *)
(* object; k the member names of an object (parallel to a).                *)
(***************************************************************************)
Num(n)   == [t |-> "num",   n |-> n, s |-> <<>>, a |-> <<>>, k |-> <<>>]
Str(s)   == [t |-> "str",   n |-> 0, s |-> s,    a |-> <<>>, k |-> <<>>]
Bool(b)  == [t |-> "bool",  n |-> IF b THEN 1 ELSE 0, s |-> <<>>, a |-> <<>>, k |-> <<>>]
Null     == [t |-> "null",  n |-> 0, s |-> <<>>, a |-> <<>>, k |-> <<>>]
Undef    == [t |-> "undef", n |-> 0, s |-> <<>>, a |-> <<>>, k |-> <<>>]
Arr(a)   == [t |-> "arr",   n |-> 0, s |-> <<>>, a |-> a,    k |-> <<>>]
Obj(k,a) == [t |-> "obj",   n |-> 0, s |-> <<>>, a |-> a,    k |-> k]

(***************************************************************************)
(* Tokens of the text on stdout.  kind "ws" is a blank, "nl" a newline,    *)
(* "junk" any text that is no JSON token.                                  *)
(***************************************************************************)
Tok(kind)  == [k |-> kind,  n |-> 0, s |-> <<>>]
TokNum(n)  == [k |-> "num", n |-> n, s |-> <<>>]
TokStr(s)  == [k |-> "str", n |-> 0, s |-> s]
\* JSON.stringify(undefined) is the value undefined, which is no string
TokUndefined == <<Tok("undefined")>>

IsBlank(tok) == tok.k \in {"ws", "nl"}

\* the reserved per-test error marker "__ERROR__"
ERROR_MARKER == <<"_", "_", "E", "R", "R", "O", "R", "_", "_">>

\* String.prototype.startsWith
startsWith(s, prefix) ==
    /\ Len(s) >= Len(prefix)
    /\ SubSeq(s, 1, Len(prefix)) = prefix

\* String.prototype.trim on token text: leading and trailing blanks go
RECURSIVE trimStart(_)
trimStart(toks) ==
    IF toks # <<>> /\ IsBlank(Head(toks)) THEN trimStart(Tail(toks)) ELSE toks

RECURSIVE trimEnd(_)
trimEnd(toks) ==
    IF toks # <<>> /\ IsBlank(toks[Len(toks)])
    THEN trimEnd(SubSeq(toks, 1, Len(toks) - 1))
    ELSE toks

trim(toks) == trimEnd(trimStart(toks))

(***************************************************************************)
(* JSON.stringify: no blanks; undefined inside an array becomes null.      *)
(***************************************************************************)
RECURSIVE stringifyValue(_), stringifyElems(_, _), stringifyMembers(_, _, _)
stringifyValue(v) ==
    CASE v.t = "num"   -> <<TokNum(v.n)>>
      [] v.t = "str"   -> <<TokStr(v.s)>>
      [] v.t = "bool"  -> <<Tok(IF v.n = 1 THEN "true" ELSE "false")>>
      [] v.t = "null"  -> <<Tok("null")>>
      [] v.t = "undef" -> <<Tok("null")>>
      [] v.t = "arr"   -> <<Tok("[")>> \o stringifyElems(v.a, 1) \o <<Tok("]")>>
      [] v.t = "obj"   -> <<Tok("{")>> \o stringifyMembers(v.k, v.a, 1) \o <<Tok("}")>>

stringifyElems(a, i) ==
    IF i > Len(a) THEN <<>>
    ELSE (IF i > 1 THEN <<Tok(",")>> ELSE <<>>)
         \o stringifyValue(a[i]) \o stringifyElems(a, i + 1)

stringifyMembers(k, a, i) ==
    IF i > Len(a) THEN <<>>
    ELSE (IF i > 1 THEN <<Tok(",")>> ELSE <<>>)
         \o <<TokStr(k[i]), Tok(":")>> \o stringifyValue(a[i])
         \o stringifyMembers(k, a, i + 1)

JSONstringify(v) == IF v.t = "undef" THEN TokUndefined ELSE stringifyValue(v)

(***************************************************************************)
(* JSON.parse: blanks between tokens are insignificant; the whole text     *)
(* must be one value, otherwise a SyntaxError is thrown (ok = FALSE).      *)
(***************************************************************************)
ParseFail == [ok |-> FALSE, v |-> Null, next |-> 0]
ParseOk(v, next) == [ok |-> TRUE, v |-> v, next |-> next]

RECURSIVE parseValue(_, _), parseElems(_, _, _), parseMembers(_, _, _, _)
parseValue(toks, i) ==
    IF i > Len(toks) THEN ParseFail
    ELSE LET tok == toks[i] IN
         CASE tok.k = "num"   -> ParseOk(Num(tok.n), i + 1)
           [] tok.k = "str"   -> ParseOk(Str(tok.s), i + 1)
           [] tok.k = "null"  -> ParseOk(Null, i + 1)
           [] tok.k = "true"  -> ParseOk(Bool(TRUE), i + 1)
           [] tok.k = "false" -> ParseOk(Bool(FALSE), i + 1)
           [] tok.k = "["     ->
                IF i + 1 <= Len(toks) /\ toks[i + 1].k = "]"
                THEN ParseOk(Arr(<<>>), i + 2)
                ELSE parseElems(toks, i + 1, <<>>)
           [] tok.k = "{"     ->
                IF i + 1 <= Len(toks) /\ toks[i + 1].k = "}"
                THEN ParseOk(Obj(<<>>, <<>>), i + 2)
                ELSE parseMembers(toks, i + 1, <<>>, <<>>)
           [] OTHER           -> ParseFail

parseElems(toks, i, acc) ==
    LET r == parseValue(toks, i) IN
    IF ~r.ok \/ r.next > Len(toks) THEN ParseFail
    ELSE CASE toks[r.next].k = "," -> parseElems(toks, r.next + 1, Append(acc, r.v))
           [] toks[r.next].k = "]" -> ParseOk(Arr(Append(acc, r.v)), r.next + 1)
           [] OTHER                -> ParseFail

parseMembers(toks, i, keys, vals) ==
    IF i + 1 > Len(toks) \/ toks[i].k # "str" \/ toks[i + 1].k # ":" THEN ParseFail
    ELSE LET r == parseValue(toks, i + 2) IN
         IF ~r.ok \/ r.next > Len(toks) THEN ParseFail
         ELSE CASE toks[r.next].k = "," ->
                     parseMembers(toks, r.next + 1, Append(keys, toks[i].s), Append(vals, r.v))
                [] toks[r.next].k = "}" ->
                     ParseOk(Obj(Append(keys, toks[i].s), Append(vals, r.v)), r.next + 1)
                [] OTHER -> ParseFail

JSONparse(text) ==
    LET toks == SelectSeq(text, LAMBDA tok : ~IsBlank(tok))
        r    == parseValue(toks, 1)
    IN  IF r.ok /\ r.next = Len(toks) + 1 THEN r ELSE ParseFail

(***************************************************************************)
(* 1. Reference solutions.                                                 *)
(*                                                                         *)
(* Arrays are passed by reference in JavaScript, so every operator that    *)
(* receives an array returns, next to its result, the content the caller's *)
(* array has after the call.                                               *)
(***************************************************************************)

\* The "return obj" slip: the caller's object itself instead of a copy.
deepCloneShared(obj) == [val |-> obj, shared |-> TRUE]

\* JSON.parse(JSON.stringify(obj)): a new object graph.  The registry holds
\* only integers, plain records and arrays of them, which the round trip
\* reproduces value for value; shared tells whether writes to the result
\* reach obj.
deepClone(obj) == [val |-> obj, shared |-> FALSE]

\* the array <<f[i], ..., f[n]>>, every entry evaluated once
RECURSIVE Array(_, _, _)
Array(f, i, n) == IF i > n THEN <<>> ELSE <<f[i]>> \o Array(f, i + 1, n)

\* (b.value/b.weight) - (a.value/a.weight) < 0, weights being positive
RatioBefore(a, b) == a.value * b.weight > b.value * a.weight

\* a.end - b.end < 0
EndBefore(a, b) == a.end < b.end

\* the comparator callback says a goes before b
Before(by, a, b) == IF by = "ratio" THEN RatioBefore(a, b) ELSE EndBefore(a, b)

\* x put into the sorted array, behind the elements it does not go before
RECURSIVE insertSorted(_, _, _)
insertSorted(by, sorted, x) ==
    IF sorted = <<>> THEN <<x>>
    ELSE IF Before(by, x, Head(sorted)) THEN <<x>> \o sorted
    ELSE <<Head(sorted)>> \o insertSorted(by, Tail(sorted), x)

RECURSIVE sortFrom(_, _, _, _)
sortFrom(by, arr, i, acc) ==
    IF i > Len(arr) THEN acc
    ELSE sortFrom(by, arr, i + 1, insertSorted(by, acc, arr[i]))

\* Array.prototype.sort (stable) with the comparator named by
sort(arr, by) == sortFrom(by, arr, 1, <<>>)

RECURSIVE greedyLoop(_, _, _, _)
greedyLoop(arr, i, totalVal, remaining) ==
    IF i > Len(arr) THEN totalVal
    ELSE IF arr[i].weight <= remaining
         THEN greedyLoop(arr, i + 1, totalVal + arr[i].value, remaining - arr[i].weight)
         ELSE greedyLoop(arr, i + 1, totalVal, remaining)

referenceGreedyKnapsack(items, capacity) ==
    LET c   == deepClone(items)
        arr == sort(c.val, "ratio")
    IN  [ret   |-> greedyLoop(arr, 1, 0, capacity),
         items |-> IF c.shared THEN arr ELSE items]

Max(a, b) == IF a >= b THEN a ELSE b
Min(a, b) == IF a <= b THEN a ELSE b

\* dp is the array of capacity+1 entries; entry w is dp[w + 1]
RECURSIVE dpKnapsackLoop(_, _, _, _)
dpKnapsackLoop(items, i, capacity, dp) ==
    IF i > Len(items) THEN dp
    ELSE LET it == items[i]
             \* w runs downwards, so dp[w - it.weight] is still the old entry
             nxt == [w \in 0..capacity |->
                        IF w >= it.weight
                        THEN Max(dp[w + 1], dp[w - it.weight + 1] + it.value)
                        ELSE dp[w + 1]]
         IN  dpKnapsackLoop(items, i + 1, capacity, Array(nxt, 0, capacity))

referenceDpKnapsack(items, capacity) ==
    LET zeros == Array([w \in 0..capacity |-> 0], 0, capacity) IN
    [ret   |-> dpKnapsackLoop(items, 1, capacity, zeros)[capacity + 1],
     items |-> items]

\* lastEnd starts at -Infinity: started = FALSE
RECURSIVE activityLoop(_, _, _, _, _)
activityLoop(arr, i, count, started, lastEnd) ==
    IF i > Len(arr) THEN count
    ELSE IF ~started \/ arr[i].start >= lastEnd
         THEN activityLoop(arr, i + 1, count + 1, TRUE, arr[i].end)
         ELSE activityLoop(arr, i + 1, count, started, lastEnd)

referenceActivitySelection(intervals) ==
    LET c   == deepClone(intervals)
        arr == sort(c.val, "end")
    IN  [ret   |-> activityLoop(arr, 1, 0, FALSE, 0),
         items |-> IF c.shared THEN arr ELSE intervals]

INF == 1000000000

\* dp is the array of amount+1 entries; entry a is dp[a + 1]
RECURSIVE coinInner(_, _, _, _, _)
coinInner(coins, j, a, dp, cur) ==
    IF j > Len(coins) THEN cur
    ELSE IF coins[j] <= a
         THEN coinInner(coins, j + 1, a, dp, Min(cur, dp[a - coins[j] + 1] + 1))
         ELSE coinInner(coins, j + 1, a, dp, cur)

RECURSIVE coinOuter(_, _, _, _)
coinOuter(coins, a, amount, dp) ==
    IF a > amount THEN dp
    ELSE coinOuter(coins, a + 1, amount,
                   [dp EXCEPT ![a + 1] = coinInner(coins, 1, a, dp, dp[a + 1])])

referenceCoinChange(coins, amount) ==
    LET fill == [a \in 0..amount |-> IF a = 0 THEN 0 ELSE INF]
        dp   == coinOuter(coins, 1, amount, Array(fill, 0, amount))
    IN  [ret   |-> IF dp[amount + 1] >= INF THEN -1 ELSE dp[amount + 1],
         items |-> coins]

(***************************************************************************)
(* 2. Canonical tests and the entry-point table.                           *)
(***************************************************************************)
Item(w, v)     == [weight |-> w, value |-> v]
Interval(s, e) == [start |-> s, end |-> e]

KnapsackTests ==
    << [input |-> << <<Item(10, 60), Item(20, 100), Item(30, 120)>>, 50 >>],
       [input |-> << <<Item(6, 25), Item(5, 24), Item(4, 15), Item(2, 7)>>, 10 >>] >>

InitTESTS ==
    [greedy_knapsack    |-> KnapsackTests,
     activity_selection |->
        << [input |-> << <<Interval(1, 3), Interval(2, 5), Interval(4, 7),
                           Interval(1, 8), Interval(5, 9), Interval(8, 10)>> >>],
           [input |-> << <<Interval(0, 2), Interval(1, 3), Interval(3, 4),
                           Interval(2, 5), Interval(5, 6)>> >>] >>,
     dp_knapsack        |-> KnapsackTests,
     coin_change        |->
        << [input |-> << <<1, 2, 5>>, 11 >>],
           [input |-> << <<2>>, 3 >>],
           [input |-> << <<2, 4, 6>>, 8 >>] >>]

InitENTRY_FN ==
    [greedy_knapsack    |-> "solveKnapsackGreedy",
     dp_knapsack        |-> "solveKnapsackOptimal",
     activity_selection |-> "solveActivitySelection",
     coin_change        |-> "solveCoinChange"]

\* Names every plain object inherits from Object.prototype; each names a
\* function (or, for __proto__, the prototype object): truthy, not iterable.
ObjectPrototypeProps ==
    {"constructor", "toString", "toLocaleString", "valueOf", "hasOwnProperty",
     "isPrototypeOf", "propertyIsEnumerable", "__proto__"}

\* obj[key] on a plain object: "own", "inherited" or "undefined"
PropertyKind(obj, key) ==
    IF key \in DOMAIN obj THEN "own"
    ELSE IF key \in ObjectPrototypeProps THEN "inherited"
    ELSE "undefined"

(***************************************************************************)
(* A problemId of a request body.  key is the property key the value       *)
(* converts to; isString is FALSE for the one-element JSON array [key],    *)
(* which names the same property but is === to no string.                  *)
(***************************************************************************)
PidString(key) == [key |-> key, isString |-> TRUE]
PidArray(key)  == [key |-> key, isString |-> FALSE]

\* the reference function the switch of computeExpected selects
Oracle(problemId, args) ==
    CASE problemId = PidString("greedy_knapsack") ->
            [some |-> TRUE, r |-> referenceGreedyKnapsack(args[1], args[2])]
      [] problemId = PidString("dp_knapsack") ->
            [some |-> TRUE, r |-> referenceDpKnapsack(args[1], args[2])]
      [] problemId = PidString("activity_selection") ->
            [some |-> TRUE, r |-> referenceActivitySelection(args[1])]
      [] problemId = PidString("coin_change") ->
            [some |-> TRUE, r |-> referenceCoinChange(args[1], args[2])]
      [] OTHER ->
            [some |-> FALSE, r |-> [ret |-> 0, items |-> args[1]]]

\* the value pushed for test case tc, whose cloned input is c and on which
\* the switch gave o, and the content of tc.input afterwards
pushed(tc, c, o) ==
    [value |-> IF o.some THEN Num(o.r.ret) ELSE Null,
     input |-> IF c.shared THEN [c.val EXCEPT ![1] = o.r.items] ELSE tc.input]

switched(problemId, tc, c) == pushed(tc, c, Oracle(problemId, c.val))

\* One iteration of the loop of computeExpected on test case tc.
expectedOfTest(problemId, tc) == switched(problemId, tc, deepClone(tc.input))

\* computeExpected.  threw: the for-of over a value that is not iterable;
\* isNull: the early "return null"; tests: the registry after the call.
collected(tests, problemId, per) ==
    [threw |-> FALSE, isNull |-> FALSE,
     expected |-> Array([i \in 1..Len(per) |-> per[i].value], 1, Len(per)),
     tests |-> [tests EXCEPT ![problemId.key] =
                   Array([i \in 1..Len(per) |-> [input |-> per[i].input]], 1, Len(per))]]

computeExpectedOn(tests, problemId) ==
    CASE PropertyKind(tests, problemId.key) = "undefined" ->
            [threw |-> FALSE, isNull |-> TRUE, expected |-> <<>>, tests |-> tests]
      [] PropertyKind(tests, problemId.key) = "inherited" ->
            [threw |-> TRUE, isNull |-> FALSE, expected |-> <<>>, tests |-> tests]
      [] PropertyKind(tests, problemId.key) = "own" ->
            collected(tests, problemId,
                      Array([i \in 1..Len(tests[problemId.key]) |->
                                expectedOfTest(problemId, tests[problemId.key][i])],
                            1, Len(tests[problemId.key])))

\* The problemIds that name a property of the initial registry, and what
\* computeExpected yields for them there.  computeExpected reads nothing but
\* its argument and the registry, so its value on the initial registry is
\* evaluated once and looked up afterwards.
OwnPids ==
    {PidString(k) : k \in DOMAIN InitTESTS} \cup {PidArray(k) : k \in DOMAIN InitTESTS}

ExpectedOnInit == [problemId \in OwnPids |-> computeExpectedOn(InitTESTS, problemId)]

computeExpected(tests, problemId) ==
    IF tests = InitTESTS /\ problemId \in OwnPids
    THEN ExpectedOnInit[problemId]
    ELSE computeExpectedOn(tests, problemId)

(***************************************************************************)
(* 3. Harness generators.  A generated harness is described by what it     *)
(* does when run: the test inputs it calls the entry point on, in order;   *)
(* whether each call sits in a try/catch; how it prints the results.       *)
(***************************************************************************)
Harness(fn, calls, catches, printer) ==
    [fn |-> fn, calls |-> calls, catches |-> catches, printer |-> printer]

\* for (const tc of TESTS[problemId]) over the tests embedded in the source
genHarnessJS(tests, entryFn, problemId) ==
    Harness(entryFn[problemId.key], tests[problemId.key], TRUE, "JSON.stringify")

genHarnessPy(tests, entryFn, problemId) ==
    Harness(entryFn[problemId.key], tests[problemId.key], TRUE, "json.dumps")

\* the problem shapes the C++ and Java generators emit call blocks for
StaticShapes ==
    {PidString("greedy_knapsack"), PidString("dp_knapsack"),
     PidString("activity_selection"), PidString("coin_change")}

genHarnessCpp(tests, entryFn, problemId) ==
    Harness(entryFn[problemId.key],
            IF problemId \in StaticShapes THEN tests[problemId.key] ELSE <<>>,
            FALSE, "cout")

genHarnessJava(tests, entryFn, problemId) ==
    Harness(entryFn[problemId.key],
            IF problemId \in StaticShapes THEN tests[problemId.key] ELSE <<>>,
            FALSE, "System.out.print")

(***************************************************************************)
(* Submissions.  The source text of a submission is described by how the   *)
(* program behaves once combined with a harness:                           *)
(*   solve   defines the entry point; beh[i] says what the i-th call does: *)
(*           "right" returns the answer, "wrong" returns answer + 1,       *)
(*           "throw" throws / raises;                                      *)
(*   hang    loops forever;                                                *)
(*   broken  does not compile, or exits with a nonzero status;             *)
(*   prints  writes raw to stdout and exits with status 0 before the       *)
(*           harness prints anything.                                      *)
(***************************************************************************)
Program(kind, beh, raw) == [kind |-> kind, beh |-> beh, raw |-> raw]

\* "Error" as in err.toString() / str(e)
ErrText == <<"E", "r", "r", "o", "r">>

\* "__ERROR__:" + err.toString()
errorString(text) == Str(ERROR_MARKER \o <<":">> \o text)

\* the integer a correct solution of problem key returns on input
Answer(key, input) == Oracle(PidString(key), input).r.ret

\* the right answers to the tests of every registered problem, in corpus order
RightAnswers ==
    LET Of(key) == Array([i \in 1..Len(InitTESTS[key]) |->
                             Answer(key, InitTESTS[key][i].input)], 1, Len(InitTESTS[key]))
    IN  [greedy_knapsack    |-> Of("greedy_knapsack"),
         dp_knapsack        |-> Of("dp_knapsack"),
         activity_selection |-> Of("activity_selection"),
         coin_change        |-> Of("coin_change")]

\* the value the entry point returns on the i-th call
Returned(key, i, b) ==
    IF b = "right" THEN RightAnswers[key][i] ELSE RightAnswers[key][i] + 1

\* json.dumps: ", " between the items
RECURSIVE dumpsElems(_, _)
dumpsElems(a, i) ==
    IF i > Len(a) THEN <<>>
    ELSE (IF i > 1 THEN <<Tok(","), Tok("ws")>> ELSE <<>>)
         \o stringifyValue(a[i]) \o dumpsElems(a, i + 1)

\* cout << "[" ... "," ... "]" over a vector<int> / ArrayList<Integer>
RECURSIVE joinInts(_, _)
joinInts(ints, i) ==
    IF i > Len(ints) THEN <<>>
    ELSE (IF i > 1 THEN <<Tok(",")>> ELSE <<>>)
         \o <<TokNum(ints[i])>> \o joinInts(ints, i + 1)

\* The process the runner starts: exit status, stdout, whether it is still
\* running when the timeout expires.
Exited(status, stdout) == [status |-> status, stdout |-> stdout, timedOut |-> FALSE]
StillRunning == [status |-> 0, stdout |-> <<>>, timedOut |-> TRUE]

runHarness(key, h, beh) ==
    LET n == Len(h.calls) IN
    IF h.catches
    THEN LET results == Array([i \in 1..n |->
                                   IF beh[i] = "throw" THEN errorString(ErrText)
                                   ELSE Num(Returned(key, i, beh[i]))], 1, n)
         IN  IF h.printer = "JSON.stringify"
             THEN Exited(0, JSONstringify(Arr(results)) \o <<Tok("nl")>>)   \* console.log
             ELSE Exited(0, <<Tok("[")>> \o dumpsElems(results, 1)
                            \o <<Tok("]"), Tok("nl")>>)                     \* print
    ELSE IF \E i \in 1..n : beh[i] = "throw"
         THEN Exited(1, <<>>)     \* uncaught exception: results never printed
         ELSE LET results == Array([i \in 1..n |-> Returned(key, i, beh[i])], 1, n) IN
              Exited(0, <<Tok("[")>> \o joinInts(results, 1) \o <<Tok("]")>>)

runProgram(key, h, prog) ==
    CASE prog.kind = "hang"   -> StillRunning
      [] prog.kind = "broken" -> Exited(1, <<>>)
      [] prog.kind = "prints" -> Exited(0, prog.raw)
      [] prog.kind = "solve"  -> runHarness(key, h, prog.beh)

(***************************************************************************)
(* 4. runInDocker.  execSync throws when the command exits with a nonzero  *)
(* status (also when docker itself cannot be started) and when the timeout *)
(* expires; the catch turns either into ok = false.                        *)
(***************************************************************************)
MsgTimedOut == "spawnSync /bin/sh ETIMEDOUT"
MsgFailed   == "Command failed"

runInDocker(dockerUp, proc) ==
    IF ~dockerUp
    THEN [ok |-> FALSE, stdout |-> <<>>, stderr |-> "docker", message |-> MsgFailed]
    ELSE IF proc.timedOut
    THEN [ok |-> FALSE, stdout |-> proc.stdout, stderr |-> "", message |-> MsgTimedOut]
    ELSE IF proc.status # 0
    THEN [ok |-> FALSE, stdout |-> proc.stdout, stderr |-> "program", message |-> MsgFailed]
    ELSE [ok |-> TRUE, stdout |-> proc.stdout, stderr |-> "", message |-> ""]

(***************************************************************************)
(* 5. The /run endpoint.                                                   *)
(***************************************************************************)
SupportedLangs == {"js", "py", "cpp", "java"}

ErrMissing     == "Missing lang/problemId/code"
ErrUnknown     == "Unknown problemId"
ErrUnsupported == "Unsupported language"
ErrNoTests     == "No tests for that problem or internal config error."
ErrRun         == "Compilation/runtime error"
ErrParse       == "Could not parse runner output"
\* the emoji that ends the first message is left out
MsgAllPassed   == "All tests passed."
MsgSomeFailed  == "Some tests failed. Keep iterating."

\* the body of a response sent with res.json
ErrorBody(error, details, stdout, stderr, raw) ==
    [kind |-> "error", error |-> error, details |-> details,
     stdout |-> stdout, stderr |-> stderr, raw |-> raw]
SimpleError(error) == ErrorBody(error, "", <<>>, "", <<>>)
VerdictBody(perTest, allPassed) ==
    [kind |-> "verdict", results |-> perTest, allPassed |-> allPassed,
     message |-> IF allPassed THEN MsgAllPassed ELSE MsgSomeFailed]
\* the handler threw: nothing was sent with res.json
Thrown == [kind |-> "exception"]

\* what one request did outside the process
NoEffects == [mkdir |-> FALSE, files |-> {}, ran |-> FALSE]

\* a JavaScript value is falsy: "" among the strings (an array never is)
FalsyString(str) == str = ""
FalsyPid(problemId) == problemId.isString /\ problemId.key = ""

DigitChar(d) ==
    CASE d = 0 -> "0" [] d = 1 -> "1" [] d = 2 -> "2" [] d = 3 -> "3" [] d = 4 -> "4"
      [] d = 5 -> "5" [] d = 6 -> "6" [] d = 7 -> "7" [] d = 8 -> "8" [] d = 9 -> "9"

\* String(i), the property key of index i
RECURSIVE IndexKey(_)
IndexKey(i) ==
    IF i < 10 THEN <<DigitChar(i)>> ELSE IndexKey(i \div 10) \o <<DigitChar(i % 10)>>

\* userOutputs[i] (i counts from 0): throws a TypeError on null
getIndex(v, i) ==
    CASE v.t = "null" -> [threw |-> TRUE, v |-> Undef]
      [] v.t = "arr"  -> [threw |-> FALSE, v |-> IF i < Len(v.a) THEN v.a[i + 1] ELSE Undef]
      [] v.t = "str"  -> [threw |-> FALSE,
                          v |-> IF i < Len(v.s) THEN Str(<<v.s[i + 1]>>) ELSE Undef]
      [] v.t = "obj"  ->
            LET hits == {j \in 1..Len(v.k) : v.k[j] = IndexKey(i)} IN
            [threw |-> FALSE,
             v |-> IF hits = {} THEN Undef
                   ELSE v.a[CHOOSE j \in hits : \A m \in hits : m <= j]]
      [] OTHER        -> [threw |-> FALSE, v |-> Undef]

\* the error-marker branch without "allPassed = false"
scoreStepKeepsFlag(acc, want, got) ==
    IF got.t = "str" /\ startsWith(got.s, ERROR_MARKER)
    THEN [perTest   |-> Append(acc.perTest,
                          [expected |-> want, got |-> Null, passed |-> FALSE, error |-> got]),
          allPassed |-> acc.allPassed]
    ELSE LET passed == JSONstringify(want) = JSONstringify(got) IN
         [perTest   |-> Append(acc.perTest,
                          [expected |-> want, got |-> got, passed |-> passed, error |-> Null]),
          allPassed |-> acc.allPassed /\ passed]

\* one iteration of the comparison loop
scoreStep(acc, want, got) ==
    IF got.t = "str" /\ startsWith(got.s, ERROR_MARKER)
    THEN [perTest   |-> Append(acc.perTest,
                          [expected |-> want, got |-> Null, passed |-> FALSE, error |-> got]),
          allPassed |-> FALSE]
    ELSE LET passed == JSONstringify(want) = JSONstringify(got) IN
         [perTest   |-> Append(acc.perTest,
                          [expected |-> want, got |-> got, passed |-> passed, error |-> Null]),
          allPassed |-> acc.allPassed /\ passed]

\* for (let i=0; i<expected.length; i++) ...; threw: userOutputs[i] threw
RECURSIVE scoreLoop(_, _, _, _)
scoreLoop(expected, userOutputs, i, acc) ==
    IF i >= Len(expected) THEN [threw |-> FALSE, acc |-> acc]
    ELSE LET g == getIndex(userOutputs, i) IN
         IF g.threw THEN [threw |-> TRUE, acc |-> acc]
         ELSE scoreLoop(expected, userOutputs, i + 1, scoreStep(acc, expected[i + 1], g.v))

\* the files the handler writes into the scratch directory
filesFor(lang) ==
    CASE lang = "js"   -> {"main.js"}
      [] lang = "py"   -> {"main.py"}
      [] lang = "cpp"  -> {"main.cpp"}
      [] lang = "java" -> {"Solution.java", "Main.java"}

genHarness(lang, tests, entryFn, problemId) ==
    CASE lang = "js"   -> genHarnessJS(tests, entryFn, problemId)
      [] lang = "py"   -> genHarnessPy(tests, entryFn, problemId)
      [] lang = "cpp"  -> genHarnessCpp(tests, entryFn, problemId)
      [] lang = "java" -> genHarnessJava(tests, entryFn, problemId)

Outcome(res, fx, tests, run) == [res |-> res, fx |-> fx, tests |-> tests, run |-> run]
NoRun == [ok |-> FALSE, stdout |-> <<>>, stderr |-> "", message |-> "not run"]

\* what one request writes and runs once it has passed the checks
Sandboxed(lang) == [mkdir |-> TRUE, files |-> filesFor(lang), ran |-> TRUE]

\* the comparison loop is over: the verdict, unless userOutputs[i] threw
verdictOf(req, tests, result, scored) ==
    IF scored.threw
    THEN Outcome(Thrown, Sandboxed(req.lang), tests, result)
    ELSE Outcome(VerdictBody(scored.acc.perTest, scored.acc.allPassed),
                 Sandboxed(req.lang), tests, result)

\* stdout went through JSON.parse
compare(req, expected, tests, result, parsed) ==
    IF ~parsed.ok
    THEN Outcome(ErrorBody(ErrParse, "", <<>>, "", result.stdout),
                 Sandboxed(req.lang), tests, result)
    ELSE verdictOf(req, tests, result,
                   scoreLoop(expected, parsed.v, 0, [perTest |-> <<>>, allPassed |-> TRUE]))

\* runInDocker returned result
afterRun(req, expected, tests, result) ==
    IF ~result.ok
    THEN Outcome(ErrorBody(ErrRun, result.message, result.stdout, result.stderr, <<>>),
                 Sandboxed(req.lang), tests, result)
    ELSE compare(req, expected, tests, result, JSONparse(trim(result.stdout)))

\* the part of the handler after the checks: scratch directory, files, run
judge(req, dockerUp, expected, tests, entryFn) ==
    afterRun(req, expected, tests,
             runInDocker(dockerUp,
                         runProgram(req.problemId.key,
                                    genHarness(req.lang, tests, entryFn, req.problemId),
                                    req.code.prog)))

\* computeExpected returned ce
afterExpected(req, dockerUp, ce, entryFn) ==
    IF ce.threw THEN Outcome(Thrown, NoEffects, ce.tests, NoRun)
    ELSE IF ce.isNull THEN Outcome(SimpleError(ErrNoTests), NoEffects, ce.tests, NoRun)
    ELSE judge(req, dockerUp, ce.expected, ce.tests, entryFn)

\* app.post("/run", ...)
handleRun(req, dockerUp, tests, entryFn) ==
    IF FalsyString(req.lang) \/ FalsyPid(req.problemId) \/ ~req.code.isString
    THEN Outcome(SimpleError(ErrMissing), NoEffects, tests, NoRun)
    ELSE IF PropertyKind(entryFn, req.problemId.key) = "undefined"
    THEN Outcome(SimpleError(ErrUnknown), NoEffects, tests, NoRun)
    ELSE IF req.lang \notin SupportedLangs
    THEN Outcome(SimpleError(ErrUnsupported), NoEffects, tests, NoRun)
    ELSE afterExpected(req, dockerUp, computeExpected(tests, req.problemId), entryFn)

(***************************************************************************)
(* The server as a state machine.                                          *)
(*   TESTS, ENTRY_FN  the module-level registry objects                    *)
(*   tmpDirs          the scratch directories that exist under os.tmpdir() *)
(*                    (the i-th made, with the files in it)                *)
(*   handled          number of requests handled so far                    *)
(*   lastCall         the latest request and whether docker could start    *)
(*   lastOut          what the handler did with it                         *)
(***************************************************************************)
VARIABLES TESTS, ENTRY_FN, tmpDirs, handled, lastCall, lastOut

vars == <<TESTS, ENTRY_FN, tmpDirs, handled, lastCall, lastOut>>

Request(lang, problemId, isString, prog) ==
    [lang |-> lang, problemId |-> problemId, code |-> [isString |-> isString, prog |-> prog]]

Broken == Program("broken", <<>>, <<>>)
Hang   == Program("hang", <<>>, <<>>)

\* request bodies the model sends
Langs == SupportedLangs \cup {"ruby", ""}
RegisteredKeys == DOMAIN InitTESTS
ProblemIds ==
    {PidString(k) : k \in RegisteredKeys}
        \cup {PidArray("activity_selection")}
        \cup {PidString("no_such_problem"), PidString("constructor"), PidString("")}

Behaviours == {"right", "wrong", "throw"}

\* the right answers of problem key, in corpus order
Answers(key) ==
    Array([i \in 1..Len(RightAnswers[key]) |-> Num(RightAnswers[key][i])],
          1, Len(RightAnswers[key]))

\* texts a submission may leave on stdout while exiting with status 0
RawOutputs(key) ==
    LET ans == Answers(key)
        n   == Len(ans)
    IN  { <<Tok("junk"), Tok("nl")>> \o JSONstringify(Arr(ans)) \o <<Tok("nl")>>,
          <<TokNum(5), Tok("nl")>>,
          <<Tok("null"), Tok("nl")>>,
          <<TokStr(<<"o", "k">>)>>,
          JSONstringify(Obj(Array([i \in 1..n |-> IndexKey(i - 1)], 1, n), ans)),
          JSONstringify(Arr(SubSeq(ans, 1, n - 1))),
          JSONstringify(Arr(Append(ans, Num(0)))) \o <<Tok("nl")>> }

Programs(key) ==
    {Hang, Broken}
        \cup {Program("solve", beh, <<>>) : beh \in [1..Len(InitTESTS[key]) -> Behaviours]}
        \cup {Program("prints", <<>>, raw) : raw \in RawOutputs(key)}

\* the submission and the state of docker matter only when the request gets
\* as far as the sandbox
Calls ==
    LET Reaches(lang, problemId, isString) ==
            /\ lang \in SupportedLangs
            /\ problemId.key \in RegisteredKeys
            /\ isString
    IN  UNION {
          IF Reaches(lang, problemId, isString)
          THEN {[req |-> Request(lang, problemId, isString, prog), dockerUp |-> TRUE] :
                    prog \in Programs(problemId.key)}
               \cup {[req |-> Request(lang, problemId, isString, Broken), dockerUp |-> FALSE]}
          ELSE {[req |-> Request(lang, problemId, isString, Broken), dockerUp |-> TRUE]}
          : lang \in Langs, problemId \in ProblemIds, isString \in BOOLEAN }

NoCall == [req |-> Request("", PidString(""), FALSE, Broken), dockerUp |-> TRUE]

Init ==
    /\ TESTS = InitTESTS
    /\ ENTRY_FN = InitENTRY_FN
    /\ tmpDirs = <<>>
    /\ handled = 0
    /\ lastCall = NoCall
    /\ lastOut = [res |-> SimpleError(ErrMissing), fx |-> NoEffects, run |-> NoRun]

\* one POST /run, from the request body to the response
PostRun ==
    /\ handled < MaxRequests
    /\ \E call \in Calls :
         \E out \in {handleRun(call.req, call.dockerUp, TESTS, ENTRY_FN)} :
            /\ lastCall' = call
            /\ lastOut' = [res |-> out.res, fx |-> out.fx, run |-> out.run]
            /\ TESTS' = out.tests
            /\ tmpDirs' = IF out.fx.mkdir THEN Append(tmpDirs, out.fx.files) ELSE tmpDirs
    /\ handled' = handled + 1
    /\ UNCHANGED ENTRY_FN

Next == PostRun

Spec == Init /\ [][Next]_vars

(***************************************************************************)
(* Vocabulary of the properties.                                           *)
(***************************************************************************)
req == lastCall.req
res == lastOut.res

Answered == handled > 0

\* lang, problemId and code are all present in the body
Complete ==
    ~FalsyString(req.lang) /\ ~FalsyPid(req.problemId) /\ req.code.isString

\* the request got as far as the sandbox
Ran == Answered /\ lastOut.fx.ran

\* stdout of an execution that succeeded, as the handler parses it
Succeeded == Ran /\ lastOut.run.ok
parsedStdout == JSONparse(trim(lastOut.run.stdout))

IsVerdict == Answered /\ res.kind = "verdict"
IsError(error) == Answered /\ res.kind = "error" /\ res.error = error

\* the test cases of the problem of the latest request
corpus == InitTESTS[req.problemId.key]

\* C1: a complete request whose problemId is no registered problem (names no
\* own property of ENTRY_FN) or whose language is unsupported is answered
\* with the unknown-problem or unsupported-language error, and makes no
\* scratch directory, writes no file and starts no sandbox execution.
C1_RejectedBeforeSandbox ==
    (/\ Answered
     /\ Complete
     /\ \/ req.problemId.key \notin DOMAIN ENTRY_FN
        \/ req.lang \notin SupportedLangs)
    => /\ IsError(ErrUnknown) \/ IsError(ErrUnsupported)
       /\ lastOut.fx = NoEffects

\* C2: between requests no scratch directory exists: every directory a
\* request made was deleted before the request ended.
C2_ScratchReleased == tmpDirs = <<>>

\* C3: when the execution runs into the timeout, the response is a top-level
\* failure (no per-test table) whose reason differs from the reason reported
\* for a compile error, a runtime error or a sandbox error (ErrRun).
C3_TimeoutReason ==
    (Ran /\ lastOut.run.message = MsgTimedOut)
    => /\ res.kind = "error"
       /\ res.error # ErrRun

\* C4: when the execution succeeded and stdout is no JSON text, or a JSON
\* value that is no array, the response is the output-parse error carrying
\* the raw stdout, never a per-test table.
C4_NonSequenceIsParseError ==
    (Succeeded /\ (~parsedStdout.ok \/ parsedStdout.v.t # "arr"))
    => /\ IsError(ErrParse)
       /\ res.raw = lastOut.run.stdout

\* C5: when the parsed output array is shorter or longer than the expected
\* outputs, the response is an error, not a per-test table.
C5_LengthMismatchIsError ==
    (/\ Succeeded
     /\ parsedStdout.ok
     /\ parsedStdout.v.t = "arr"
     /\ Len(parsedStdout.v.a) # Len(corpus))
    => res.kind = "error"

\* C6: in every supported language, a submission whose entry point throws on
\* every call gets a per-test table with allPassed = false in which every
\* entry has passed = false, got = null and an error.
C6_ThrowingSubmission ==
    (/\ Ran
     /\ lastCall.dockerUp
     /\ req.code.prog.kind = "solve"
     /\ \A i \in DOMAIN req.code.prog.beh : req.code.prog.beh[i] = "throw")
    => /\ res.kind = "verdict"
       /\ ~res.allPassed
       /\ Len(res.results) = Len(corpus)
       /\ \A i \in DOMAIN res.results :
             /\ ~res.results[i].passed
             /\ res.results[i].got = Null
             /\ res.results[i].error # Null

\* C7: the handler answers every request with a response body (a verdict or
\* an error object); it never throws.
C7_NeverThrows == Answered => res.kind \in {"verdict", "error"}

\* C8: in every per-test table, allPassed is true exactly when every entry
\* has passed = true.
C8_AllPassedIsConjunction ==
    IsVerdict => (res.allPassed <=> \A i \in DOMAIN res.results : res.results[i].passed)

\* a table with an entry that passed and an entry that carries an error
C8_Witness ==
    /\ IsVerdict
    /\ \E i \in DOMAIN res.results : res.results[i].passed
    /\ \E i \in DOMAIN res.results : res.results[i].error # Null

\* the i-th parsed output (i counts from 1)
parsedOutput(i) == getIndex(parsedStdout.v, i - 1).v

\* C9: a per-test table has one entry per test case, in corpus order; the
\* i-th expected value is the reference oracle applied to the i-th test
\* case; the i-th entry passed exactly when the i-th parsed output is no
\* error-marker string and equals that expected value.
C9_AlignedWithCorpus ==
    IsVerdict =>
       /\ Len(res.results) = Len(corpus)
       /\ \A i \in DOMAIN res.results :
             LET want == Num(Answer(req.problemId.key, corpus[i].input))
                 got  == parsedOutput(i)
             IN  /\ res.results[i].expected = want
                 /\ res.results[i].passed
                      <=> /\ ~(got.t = "str" /\ startsWith(got.s, ERROR_MARKER))
                          /\ got = want

\* C10: judging never changes the registry: TESTS and ENTRY_FN keep their
\* initial values, so computeExpected, called again after the request, gives
\* the expected values the response carries, and judging the latest request
\* again, with the same sandbox output, gives the response it got.
C10_RegistryUnchanged ==
    /\ TESTS = InitTESTS
    /\ ENTRY_FN = InitENTRY_FN
    /\ Answered => handleRun(req, lastCall.dockerUp, TESTS, ENTRY_FN).res = res
    /\ IsVerdict =>
          LET again == computeExpectedOn(TESTS, req.problemId).expected IN
          /\ Len(again) = Len(res.results)
          /\ \A i \in DOMAIN res.results : res.results[i].expected = again[i]

\* a second request for greedy_knapsack, the problem whose oracle sorts, that
\* was judged to a per-test table
C10_Witness ==
    /\ handled >= 2
    /\ IsVerdict
    /\ req.problemId = PidString("greedy_knapsack")
    /\ Len(tmpDirs) >= 2

====
